---- MODULE Spec2Model ----
(***************************************************************************)
(* MonadJS: the Maybe monad (Just / Nothing), its smart constructor, its   *)
(* combinator library and the bind/chain operations of both variants.      *)
(*                                                                         *)
(* JavaScript values are records tagged by t.  A call either returns a     *)
(* value or throws one; an outcome is a record tagged by k.  The model     *)
(* state is one hand-threaded expression (m, steps) together with the last *)
(* library call that was made: its name, its inputs, its outcome and the   *)
(* log of the invocations of the caller's callback.                        *)
(***************************************************************************)
EXTENDS Integers, Sequences, FiniteSets, TLC

\* ---------------------------------------------------------------- bounds
MaxNum == 40      \* largest number a chain step may produce
MaxDepth == 2     \* deepest nesting of Maybe inside Maybe
MaxLen == 2       \* longest enumerated input array
MaxSteps == 4     \* longest hand-threaded bind/chain expression

\* ---------------------------------------------------------------- values
Null == [t |-> "null"]
Undefined == [t |-> "undefined"]
NaN == [t |-> "NaN"]
Num(n) == [t |-> "num", v |-> n]
Bool(b) == [t |-> "bool", v |-> b]
Str(s) == [t |-> "str", v |-> s]
Arr(s) == [t |-> "arr", v |-> s]
TypeError(s) == [t |-> "TypeError", v |-> s]

\* the single shared object standing for every empty Maybe
Nothing == [t |-> "Nothing"]

\* an object built by the constructor function Just around the value a
Just(a) == [t |-> "Just", v |-> a]

\* outcomes of a call
Ret(v) == [k |-> "ret", v |-> v]
Throw(e) == [k |-> "throw", v |-> e]

\* a === b, for the comparisons the library makes (against null, undefined,
\* the Nothing object, or a value against itself): NaN is unequal to itself
StrictEq(a, b) == IF a.t = "NaN" \/ b.t = "NaN" THEN FALSE ELSE a = b

\* ToNumber(a) * k as the multiplication operator computes it
Times(a, k) ==
  CASE a.t = "num" -> Num(a.v * k)
    [] a.t = "null" -> Num(0)
    [] a.t = "arr" /\ Len(a.v) = 0 -> Num(0)
    [] a.t = "arr" /\ Len(a.v) = 1 /\ a.v[1].t = "num" -> Num(a.v[1].v * k)
    [] a.t = "arr" /\ Len(a.v) = 1 /\ a.v[1].t \in {"null", "undefined"} -> Num(0)
    [] OTHER -> NaN

\* ---------------------------------------------------------------- Maybe
\* the smart constructor without the test for NaN
Maybe_noNaN(a) ==
  IF StrictEq(a, Null) \/ StrictEq(a, Undefined) THEN Nothing ELSE Just(a)

\* the smart constructor passing a Maybe through instead of wrapping it
Maybe_idempotent(a) ==
  IF a.t \in {"Just", "Nothing"} THEN a
  ELSE IF StrictEq(a, Null) \/ StrictEq(a, Undefined) \/ ~StrictEq(a, a)
  THEN Nothing
  ELSE Just(a)

Maybe(a) ==
  IF StrictEq(a, Null) \/ StrictEq(a, Undefined) \/ ~StrictEq(a, a)
  THEN Nothing
  ELSE Just(a)

isJust(a) == a.t = "Just"

isNothing(a) == StrictEq(a, Nothing)

\* Just.bind applied to the callback function(a) { return a; }
bindIdentity(a) == Ret(a.v)

\* fromJust returning undefined for Nothing instead of throwing
fromJust_noThrow(a) == IF isJust(a) THEN bindIdentity(a) ELSE Ret(Undefined)

fromJust(a) ==
  IF isJust(a) THEN bindIdentity(a)
  ELSE IF isNothing(a) THEN Throw(Str("[object Object] is Nothing"))
  ELSE Throw(Str("is not a Maybe"))

fromMaybe(b, a) == IF isJust(a) THEN fromJust(a) ELSE Ret(b)

inject(a) == Maybe(a)

fail(e) == Nothing

\* ---------------------------------------------------------------- callbacks
\* testBind: function(a) { return Maybe(a * 2); }
fn(a) == Ret(Maybe(Times(a, 2)))

\* testBind: function() { console.log('Value is ' + this.fromJust()); return this; }
log(self) == IF fromJust(self).k = "throw" THEN fromJust(self) ELSE Ret(self)

\* testBind: function() { return this.fromJust(); }
ch(self) == fromJust(self)

\* testBind: function() { return Maybe(null); }
nothing == Ret(Maybe(Null))

\* testMaybe: function(a) { return a * 2 }
double(a) == Ret(Times(a, 2))

\* testMaybe: function(a) { var b = Maybe(a); if (b.isJust()) { return b.inject(a * 2); } return b; }
fnM(a) == IF isJust(Maybe(a)) THEN Ret(inject(Times(a, 2))) ELSE Ret(Maybe(a))

\* fmapTest: function(a) { return a * 100; }
map(a) == Ret(Times(a, 100))

\* a caller's function whose invocation faults
raise == Throw(Str("fault"))

\* fn.call(self, a)
Call(f, self, a) ==
  CASE f = "fn" -> fn(a)
    [] f = "log" -> log(self)
    [] f = "ch" -> ch(self)
    [] f = "nothing" -> nothing
    [] f = "double" -> double(a)
    [] f = "fnM" -> fnM(a)
    [] f = "map" -> map(a)
    [] f = "raise" -> raise

\* ---------------------------------------------------------------- results
\* the outcome o of a library call, the arguments c of the invocations of the
\* caller's callback in the order they were made, and the array argument as
\* it stands after the call (Undefined when the call takes no array)
Res(o, c, a) == [k |-> o.k, v |-> o.v, calls |-> c, after |-> a]

\* the inputs of a library call: the Maybe it is applied to, its other
\* argument and the name of the callback
In(r, a, f) == [recv |-> r, arg |-> a, cb |-> f]

\* Array.prototype.map, given the outcomes rs of the callback on the elements
\* in order: a new array of the results, or the first fault
ArrayMap(rs) ==
  IF \E i \in 1..Len(rs) : rs[i].k = "throw"
  THEN LET i == CHOOSE j \in 1..Len(rs) :
                  /\ rs[j].k = "throw"
                  /\ \A h \in 1..(j - 1) : rs[h].k = "ret"
       IN  Throw(rs[i].v)
  ELSE Ret(Arr([i \in 1..Len(rs) |-> rs[i].v]))

\* ---------------------------------------------------------------- bind, chain
\* Just.bind without the try/catch
JustBind_noCatch(self, f) == Res(Call(f, self, self.v), <<self.v>>, Undefined)

JustBind(self, f) ==
  LET r == Call(f, self, self.v)
  IN  Res(IF r.k = "throw" THEN Ret(fail(r.v)) ELSE r, <<self.v>>, Undefined)

JustChain(self, f) == Res(Call(f, self, Undefined), <<Undefined>>, Undefined)

NothingBind(self, f) == Res(Ret(self), <<>>, Undefined)

\* Nothing.chain invoking its callback as Just.chain does
NothingChain_invokes(self, f) == Res(Call(f, self, Undefined), <<Undefined>>, Undefined)

NothingChain(self, f) == Res(Ret(self), <<>>, Undefined)

\* a.bind(f) and a.chain(f), dispatched on the object a
bind(a, f) == IF isJust(a) THEN JustBind(a, f) ELSE NothingBind(a, f)

chain(a, f) == IF isJust(a) THEN JustChain(a, f) ELSE NothingChain(a, f)

\* ---------------------------------------------------------------- combinators
maybe(b, f, a) ==
  IF isJust(a)
  THEN Res(Call(f, Undefined, fromJust(a).v), <<fromJust(a).v>>, Undefined)
  ELSE Res(Ret(b), <<>>, Undefined)

\* listToMaybe returning the first element without classifying it
listToMaybe_raw(a) == IF Len(a.v) = 0 THEN Nothing ELSE a.v[1]

listToMaybe(a) == IF Len(a.v) = 0 THEN Nothing ELSE Maybe(a.v[1])

maybeToList(a) == IF isJust(a) THEN Arr(<<fromJust(a).v>>) ELSE Arr(<<>>)

\* catMaybes keeping the Just objects instead of unwrapping them
catMaybes_noUnwrap(a) ==
  Res(Ret(Arr(SelectSeq(a.v, LAMBDA b : isJust(b)))), <<>>, a)

catMaybes(a) ==
  LET kept == SelectSeq(a.v, LAMBDA b : isJust(b))
  IN  Res(ArrayMap([i \in 1..Len(kept) |-> fromJust(kept[i])]), <<>>, a)

\* mapMaybe returning the original elements for which f returned a Just
mapMaybe_original(f, a) ==
  LET kept == SelectSeq(a.v, LAMBDA b : isJust(Call(f, Undefined, b).v))
  IN  Res(Ret(Arr(kept)), a.v, a)

mapMaybe(f, a) ==
  LET kept == SelectSeq(a.v, LAMBDA b : isJust(Call(f, Undefined, b).v))
  IN  Res(ArrayMap([i \in 1..Len(kept) |-> fromJust(Call(f, Undefined, kept[i]).v)]),
          a.v \o kept, a)

\* x.map(f) on the payload x of a Just
PayloadMap(x, f) ==
  IF x.t = "arr"
  THEN ArrayMap([i \in 1..Len(x.v) |-> Call(f, Undefined, x.v[i])])
  ELSE Throw(TypeError("map is not a function"))

\* fmap wrapping the mapped payload in a Just again
fmap_rewrap(f, a) ==
  IF isJust(a)
  THEN LET r == PayloadMap(fromJust(a).v, f)
       IN  Res(IF r.k = "ret" THEN Ret(Just(r.v)) ELSE r,
               IF fromJust(a).v.t = "arr" THEN fromJust(a).v.v ELSE <<>>, Undefined)
  ELSE Res(Ret(Nothing), <<>>, Undefined)

fmap(f, a) ==
  IF isJust(a)
  THEN Res(PayloadMap(fromJust(a).v, f),
           IF fromJust(a).v.t = "arr" THEN fromJust(a).v.v ELSE <<>>, Undefined)
  ELSE Res(Ret(Nothing), <<>>, Undefined)

\* the fmap methods of a Just object and of the Nothing object
JustFmap(self, f) == fmap(f, self)

NothingFmap(self, f) == fmap(f, self)

\* ---------------------------------------------------------------- Identity
\* an object built by the constructor function Monad around the value a
Monad(a) == [t |-> "Monad", v |-> a]

\* x.constructor: reading a property of null or undefined is a TypeError
Constructor(x) ==
  CASE x.t \in {"null", "undefined"} ->
         Throw(TypeError("Cannot read property 'constructor'"))
    [] x.t \in {"num", "NaN"} -> Ret(Str("Number"))
    [] x.t = "arr" -> Ret(Str("Array"))
    [] x.t = "Nothing" -> Ret(Str("Object"))
    [] OTHER -> Ret(Str(x.t))

\* join's callback: function(a) { return a.constructor === Monad ? a : this }
joinFn(self, a) ==
  IF Constructor(a).k = "throw" THEN Constructor(a)
  ELSE IF Constructor(a).v = Str("Monad") THEN Ret(a)
  ELSE Ret(self)

\* Monad.bind applied to join's callback: fn.call(this, a), nothing caught
MonadBindJoinFn(self) == joinFn(self, self.v)

join(self) == Res(MonadBindJoinFn(self), <<>>, Undefined)

\* ---------------------------------------------------------------- inputs
\* testMaybe: list, listN, listM
list == Arr(<<Num(2), Num(4), Num(6), Null, Null, Num(12), NaN, Num(16), Num(18), Undefined>>)

listN == Arr(<<Null, Null, Num(1), Num(2), Num(3)>>)

listM == Arr(<<Maybe(Num(5)), Maybe(Num(10)), Maybe(Num(15)), Maybe(Null),
               Maybe(Undefined), Maybe(NaN), Maybe(Num(20))>>)

\* fmapTest: the array wrapped into m
listF == Arr(<<Num(1), Num(2), Num(3), Num(4), Num(5)>>)

\* raw values handed to the smart constructor
Atoms == {Null, Undefined, NaN, Num(1), Num(2), Arr(<<>>), Arr(<<Num(1), Num(2)>>), listF}

\* elements of the enumerated raw arrays and of the enumerated arrays of Maybes
RawElems == {Null, NaN, Num(1), Num(2)}

MaybeElems == {Nothing, Just(Num(1)), Just(Num(2))}

SeqsUpTo(S, n) == UNION {[1..i -> S] : i \in 0..n}

RawArrays == {Arr(s) : s \in SeqsUpTo(RawElems, MaxLen)} \cup {list, listN}

MaybeArrays == {Arr(s) : s \in SeqsUpTo(MaybeElems, MaxLen)} \cup {listM}

\* values wrapped into the Identity monad; testMonad wraps 2
Wrapped == Atoms \cup {Monad(Num(2)), Monad(Null), Monad(Monad(Num(2))), Nothing, Just(Num(2))}

\* default values
Defaults == {Num(-1)}

IsMaybe(a) == a.t \in {"Just", "Nothing"}

RECURSIVE Depth(_)
Depth(a) == IF a.t = "Just" THEN 1 + Depth(a.v) ELSE IF a.t = "Nothing" THEN 1 ELSE 0

RECURSIVE InRange(_)
InRange(a) ==
  CASE a.t = "num" -> a.v <= MaxNum
    [] a.t = "Just" -> InRange(a.v)
    [] OTHER -> TRUE

\* ---------------------------------------------------------------- state
VARIABLES
  m,      \* the value of the hand-threaded expression so far
  steps,  \* the number of bind/chain calls made in that expression
  op,     \* the last library call
  inp,    \* its inputs
  out     \* its result

vars == <<m, steps, op, inp, out>>

Init ==
  \E v \in Atoms :
    /\ m = Maybe(v)
    /\ steps = 0
    /\ op = "Maybe"
    /\ inp = In(Undefined, v, "")
    /\ out = Res(Ret(Maybe(v)), <<>>, Undefined)

\* var m = Maybe(v): a new expression starts; v may be the Maybe at hand
Construct ==
  \E v \in Atoms \cup (IF IsMaybe(m) /\ Depth(m) < MaxDepth THEN {m} ELSE {}) :
    /\ m' = Maybe(v)
    /\ steps' = 0
    /\ op' = "Maybe"
    /\ inp' = In(Undefined, v, "")
    /\ out' = Res(Ret(Maybe(v)), <<>>, Undefined)

\* m.inject(v)
Inject ==
  \E v \in Atoms :
    /\ IsMaybe(m)
    /\ op' = "inject"
    /\ inp' = In(m, v, "")
    /\ out' = Res(Ret(inject(v)), <<>>, Undefined)
    /\ UNCHANGED <<m, steps>>

\* one more .bind(f) on the expression
Bind ==
  \E f \in {"fn", "log", "ch", "nothing", "double", "raise"} :
    /\ IsMaybe(m)
    /\ steps < MaxSteps
    /\ InRange(bind(m, f).v)
    /\ op' = "bind"
    /\ inp' = In(m, Undefined, f)
    /\ out' = bind(m, f)
    /\ m' = IF bind(m, f).k = "ret" THEN bind(m, f).v ELSE m
    /\ steps' = steps + 1

\* one more .chain(f) on the expression
Chain ==
  \E f \in {"fn", "log", "ch", "nothing", "raise"} :
    /\ IsMaybe(m)
    /\ steps < MaxSteps
    /\ InRange(chain(m, f).v)
    /\ op' = "chain"
    /\ inp' = In(m, Undefined, f)
    /\ out' = chain(m, f)
    /\ m' = IF chain(m, f).k = "ret" THEN chain(m, f).v ELSE m
    /\ steps' = steps + 1

\* Maybe.isJust(m) and m.isJust()
IsJust ==
  /\ IsMaybe(m)
  /\ op' = "isJust"
  /\ inp' = In(m, Undefined, "")
  /\ out' = Res(Ret(Bool(isJust(m))), <<>>, Undefined)
  /\ UNCHANGED <<m, steps>>

\* Maybe.isNothing(m) and m.isNothing()
IsNothing ==
  /\ IsMaybe(m)
  /\ op' = "isNothing"
  /\ inp' = In(m, Undefined, "")
  /\ out' = Res(Ret(Bool(isNothing(m))), <<>>, Undefined)
  /\ UNCHANGED <<m, steps>>

\* Maybe.fromJust(m)
FromJustStatic ==
  /\ IsMaybe(m)
  /\ op' = "Maybe.fromJust"
  /\ inp' = In(m, Undefined, "")
  /\ out' = Res(fromJust(m), <<>>, Undefined)
  /\ UNCHANGED <<m, steps>>

\* m.fromJust(), which both variants define as Maybe.fromJust(this)
FromJustMethod ==
  /\ IsMaybe(m)
  /\ op' = "fromJust"
  /\ inp' = In(m, Undefined, "")
  /\ out' = Res(fromJust(m), <<>>, Undefined)
  /\ UNCHANGED <<m, steps>>

\* Maybe.fromMaybe(b, m) and m.fromMaybe(b)
FromMaybe ==
  \E b \in Defaults :
    /\ IsMaybe(m)
    /\ op' = "fromMaybe"
    /\ inp' = In(m, b, "")
    /\ out' = Res(fromMaybe(b, m), <<>>, Undefined)
    /\ UNCHANGED <<m, steps>>

\* Maybe.maybe(b, f, m) and m.maybe(b, f)
MaybeFn ==
  \E b \in Defaults, f \in {"double", "raise"} :
    /\ IsMaybe(m)
    /\ op' = "maybe"
    /\ inp' = In(m, b, f)
    /\ out' = maybe(b, f, m)
    /\ UNCHANGED <<m, steps>>

\* Maybe.maybeToList(m) and m.maybeToList()
MaybeToList ==
  /\ IsMaybe(m)
  /\ op' = "maybeToList"
  /\ inp' = In(m, Undefined, "")
  /\ out' = Res(Ret(maybeToList(m)), <<>>, Undefined)
  /\ UNCHANGED <<m, steps>>

\* Maybe.fmap(f, m)
Fmap ==
  \E f \in {"map"} :
    /\ IsMaybe(m)
    /\ op' = "fmap"
    /\ inp' = In(m, Undefined, f)
    /\ out' = fmap(f, m)
    /\ UNCHANGED <<m, steps>>

\* m.fmap(f)
FmapMethod ==
  \E f \in {"map"} :
    /\ IsMaybe(m)
    /\ op' = "fmap.method"
    /\ inp' = In(m, Undefined, f)
    /\ out' = IF isJust(m) THEN JustFmap(m, f) ELSE NothingFmap(m, f)
    /\ UNCHANGED <<m, steps>>

\* new Monad(a).join(), whose result starts a new expression
Join ==
  \E a \in Wrapped :
    /\ op' = "join"
    /\ inp' = In(Monad(a), Undefined, "")
    /\ out' = join(Monad(a))
    /\ m' = IF join(Monad(a)).k = "ret" THEN join(Monad(a)).v ELSE m
    /\ steps' = 0

\* Maybe.listToMaybe(a), whose result starts a new expression
ListToMaybe ==
  \E a \in RawArrays :
    /\ op' = "listToMaybe"
    /\ inp' = In(Undefined, a, "")
    /\ out' = Res(Ret(listToMaybe(a)), <<>>, a)
    /\ m' = listToMaybe(a)
    /\ steps' = 0

\* Maybe.catMaybes(a), whose result starts a new expression
CatMaybes ==
  \E a \in MaybeArrays :
    /\ op' = "catMaybes"
    /\ inp' = In(Undefined, a, "")
    /\ out' = catMaybes(a)
    /\ m' = IF catMaybes(a).k = "ret" THEN catMaybes(a).v ELSE m
    /\ steps' = 0

\* Maybe.mapMaybe(f, a), whose result starts a new expression
MapMaybe ==
  \E a \in RawArrays, f \in {"fnM", "fn"} :
    /\ op' = "mapMaybe"
    /\ inp' = In(Undefined, a, f)
    /\ out' = mapMaybe(f, a)
    /\ m' = IF mapMaybe(f, a).k = "ret" THEN mapMaybe(f, a).v ELSE m
    /\ steps' = 0

Next ==
  \/ Construct
  \/ Inject
  \/ Bind
  \/ Chain
  \/ IsJust
  \/ IsNothing
  \/ FromJustStatic
  \/ FromJustMethod
  \/ FromMaybe
  \/ MaybeFn
  \/ MaybeToList
  \/ Fmap
  \/ FmapMethod
  \/ Join
  \/ ListToMaybe
  \/ CatMaybes
  \/ MapMaybe

Spec == Init /\ [][Next]_vars

TypeOK ==
  /\ steps \in 0..MaxSteps
  /\ out.k \in {"ret", "throw"}

\* ---------------------------------------------------------------- properties
Absent == {"null", "undefined", "NaN"}

\* the position among the kept indices idx of the index i
Rank(idx, i) == Cardinality({j \in idx : j <= i})

\* C1: Maybe(v) is Nothing if and only if v is null, undefined or NaN; for
\* every other v it is a Just m with isJust(m), not isNothing(m) and
\* fromJust(m) returning v.
C1_SmartConstructor ==
  op = "Maybe" =>
    /\ out.k = "ret"
    /\ m = out.v
    /\ isNothing(out.v) <=> inp.arg.t \in Absent
    /\ inp.arg.t \notin Absent =>
         /\ isJust(out.v)
         /\ ~isNothing(out.v)
         /\ fromJust(out.v) = Ret(inp.arg)

C1_Witness == op = "Maybe" /\ inp.arg = NaN /\ out.v = Nothing

\* C2 as claimed: Maybe applied to a value that is already a Maybe returns
\* that Maybe unchanged (no second layer).
C2_NeverDoubleWraps ==
  (op = "Maybe" /\ IsMaybe(inp.arg)) => out.v = inp.arg

\* C2: Maybe applied to a value that is already a Maybe wraps it like any
\* other value that is not null, undefined or NaN: Maybe(Just(v)) is a Just
\* whose payload is Just(v), and Maybe(Nothing) is a Just whose payload is
\* Nothing.
C2_WrapsMaybeArgument ==
  (op = "Maybe" /\ IsMaybe(inp.arg)) =>
    /\ isJust(out.v)
    /\ out.v.v = inp.arg
    /\ fromJust(out.v) = Ret(inp.arg)
    /\ Depth(out.v) = Depth(inp.arg) + 1

C2_Witness == op = "Maybe" /\ inp.arg = Nothing /\ out.v = Just(Nothing)

\* C3: fromJust returns x for Just(x) and throws the diagnostic "... is
\* Nothing" for Nothing, as Maybe.fromJust(m) and as m.fromJust() alike, and
\* the Maybe it was applied to is left as it was.
C3_FromJust ==
  op \in {"Maybe.fromJust", "fromJust"} =>
    /\ isJust(inp.recv) => (out.k = "ret" /\ out.v = inp.recv.v)
    /\ isNothing(inp.recv) =>
         (out.k = "throw" /\ out.v = Str("[object Object] is Nothing"))
    /\ m = inp.recv

C3_Witness == op = "fromJust" /\ inp.recv = Nothing /\ out.k = "throw" /\ m = Nothing

\* C4: apart from fromJust, every operation applied to a Maybe made by the
\* smart constructor, with a callback that does not itself fault, returns a
\* result and never throws.
C4_OnlyFromJustFails ==
  (/\ op \in {"isJust", "isNothing", "fromMaybe", "maybe", "listToMaybe",
               "maybeToList", "catMaybes", "mapMaybe", "fmap", "fmap.method",
               "bind", "chain", "inject"}
   /\ inp.cb # "raise") => out.k = "ret"

\* C5: bind on Just(x) invokes fn exactly once, with x, and returns its result
\* as it is, except that a fault raised by fn is intercepted and Nothing is
\* returned; bind on Nothing returns Nothing without invoking fn.
C5_Bind ==
  op = "bind" =>
    /\ isJust(inp.recv) =>
         /\ out.calls = <<inp.recv.v>>
         /\ out.k = "ret"
         /\ Call(inp.cb, inp.recv, inp.recv.v).k = "ret" =>
              out.v = Call(inp.cb, inp.recv, inp.recv.v).v
         /\ Call(inp.cb, inp.recv, inp.recv.v).k = "throw" => out.v = Nothing
    /\ isNothing(inp.recv) =>
         /\ out.calls = <<>>
         /\ out.k = "ret"
         /\ out.v = Nothing

C5_Witness ==
  op = "bind" /\ isJust(inp.recv) /\ inp.cb = "raise" /\ out.v = Nothing
  /\ out.calls = <<inp.recv.v>>

\* C6: once the expression is Nothing, every later bind or chain call returns
\* Nothing and invokes no callback, so the whole expression is Nothing.
C6_EmptyAbsorbing ==
  [][(isNothing(m) /\ op' \in {"bind", "chain"}) =>
       (isNothing(m') /\ out'.k = "ret" /\ isNothing(out'.v) /\ out'.calls = <<>>)]_vars

C6_Witness ==
  /\ op = "chain"
  /\ steps = MaxSteps
  /\ inp.recv = Nothing
  /\ inp.cb = "log"
  /\ m = Nothing
  /\ out.calls = <<>>

\* C7: maybeToList(Just(x)) is [x], maybeToList(Nothing) is [], and
\* listToMaybe(maybeToList(m)) is m again, variant and payload.
C7_RoundTrip ==
  op = "maybeToList" =>
    /\ isJust(inp.recv) => out.v = Arr(<<inp.recv.v>>)
    /\ isNothing(inp.recv) => out.v = Arr(<<>>)
    /\ listToMaybe(out.v) = inp.recv

C7_Witness ==
  op = "maybeToList" /\ isJust(inp.recv) /\ Len(out.v.v) = 1
  /\ listToMaybe(out.v) = inp.recv

C10_MapMaybeListN ==
  (op = "mapMaybe" /\ inp.arg = listN /\ inp.cb = "fnM") =>
    out.v = Arr(<<Num(1), Num(2), Num(3)>>)

\* C11 as claimed: fmap always returns a Maybe; on Just(x) with x an array it
\* returns the Just of the array of fn applied to each element of x, on
\* Nothing it returns Nothing without invoking fn, and m.fmap(fn) gives what
\* Maybe.fmap(fn, m) gives.
C11_FmapReturnsMaybe ==
  op \in {"fmap", "fmap.method"} =>
    /\ out.k = "ret" => IsMaybe(out.v)
    /\ (isJust(inp.recv) /\ inp.recv.v.t = "arr") =>
         /\ out.k = "ret"
         /\ out.v = Just(Arr([i \in 1..Len(inp.recv.v.v) |->
                                Times(inp.recv.v.v[i], 100)]))
    /\ isNothing(inp.recv) => (out.k = "ret" /\ out.v = Nothing /\ out.calls = <<>>)
    /\ out = fmap(inp.cb, inp.recv)

\* C11: on Just(x) with x an array, fmap returns the bare array of fn applied
\* to each element of x, not wrapped in a Just (for Just([1, 2, 3, 4, 5]) and
\* x * 100 the array [100, 200, 300, 400, 500]); on Nothing it returns Nothing
\* without invoking fn; m.fmap(fn) gives what Maybe.fmap(fn, m) gives.
C11_FmapReturnsArray ==
  op \in {"fmap", "fmap.method"} =>
    /\ (isJust(inp.recv) /\ inp.recv.v.t = "arr") =>
         /\ out.k = "ret"
         /\ out.v = Arr([i \in 1..Len(inp.recv.v.v) |->
                           Times(inp.recv.v.v[i], 100)])
         /\ out.calls = inp.recv.v.v
    /\ inp.recv = Just(listF) =>
         out.v = Arr(<<Num(100), Num(200), Num(300), Num(400), Num(500)>>)
    /\ isNothing(inp.recv) => (out.k = "ret" /\ out.v = Nothing /\ out.calls = <<>>)
    /\ out = fmap(inp.cb, inp.recv)

C11_Witness ==
  /\ op = "fmap.method"
  /\ inp.recv = Just(listF)
  /\ out.v = Arr(<<Num(100), Num(200), Num(300), Num(400), Num(500)>>)

\* C12: join on an Identity value m wrapping any value a, null and undefined
\* included, returns a itself when a is an Identity value and m otherwise,
\* without failing.
C12_IdentityJoin ==
  op = "join" =>
    /\ out.k = "ret"
    /\ inp.recv.v.t = "Monad" => out.v = inp.recv.v
    /\ inp.recv.v.t # "Monad" => out.v = inp.recv

====
